---------------------------- MODULE Spec2Model ----------------------------
(***************************************************************************)
(* A model of the thread pool of src/threadpool.c: the lazily started pool *)
(* (pthread_once), the worker loop, post(), tp_work_submit,                *)
(* tp_work_cancel, destory_threads and the fork handler.                   *)
(*                                                                         *)
(* One behaviour follows ONE process.  A fork is a step after which the    *)
(* behaviour follows either the parent (which goes on with all its         *)
(* threads) or the child (a copy of the memory, only the forking thread    *)
(* left, the child handler run).                                           *)
(***************************************************************************)
EXTENDS Integers, Sequences, FiniteSets, TLC

(* ------------------------------ bounds -------------------------------- *)
\* job records the callers own
NJobs == 2
\* caller threads
NCallers == 2
\* largest configured THREADPOOL_SIZE the pool is started with
MaxEnv == 2
\* longest value of THREADPOOL_SIZE whose conversion is followed
MaxLen == 3
\* submissions of one record (reuse after completion or cancel)
MaxSubmits == 2
\* tp_work_cancel calls on one record
MaxCancels == 2
\* fork() calls followed along one behaviour
MaxForks == 1

(* ------------------------- program constants -------------------------- *)
MAX_THREADPOOL_SIZE == 128
\* ARRAY_SIZE(default_threads)
DEFAULT_THREADS == 4
\* the NULL work callback
NULLFN == 0
\* the trap handler tp_cancelled, as a value of the work field
TP_CANCELLED == -1
\* the NULL pointer, as a value of a queue link
NULLP == -1
\* &wq, the head of the shared queue
WQ == 0
\* &exit_message
EXIT_MESSAGE == NJobs + 1

Jobs == 1 .. NJobs
Nodes == {WQ, EXIT_MESSAGE} \cup Jobs
\* worker threads are numbered as threads[i-1]; no pool whose workers are
\* started is larger than the largest configured size or the built-in table
MaxWorkers == IF MaxEnv > DEFAULT_THREADS THEN MaxEnv ELSE DEFAULT_THREADS
Workers == 1 .. MaxWorkers
Callers == (MaxWorkers + 1) .. (MaxWorkers + NCallers)
NOBODY == 0
\* every thread can be inside a call of the API: a caller, or a worker
\* whose job body calls it
Threads == Workers \cup Callers

(* ------------------- queue.h (not in the repository) ------------------ *)
\* A queue is the pair of link maps [next, prev] over the nodes.
QUEUE_NEXT(Q, q) == Q.next[q]
QUEUE_PREV(Q, q) == Q.prev[q]

\* init(node): the node is empty, i.e. self-linked
QUEUE_INIT(Q, q) ==
  [next |-> [Q.next EXCEPT ![q] = q], prev |-> [Q.prev EXCEPT ![q] = q]]

\* is_empty: the node links to itself
QUEUE_EMPTY(Q, q) == QUEUE_NEXT(Q, q) = q

\* head(list): the first node, the list itself when empty
QUEUE_HEAD(Q, h) == QUEUE_NEXT(Q, h)

\* insert_tail(list, node): q goes between the old tail and the head
QUEUE_INSERT_TAIL(Q, h, q) ==
  LET t  == QUEUE_PREV(Q, h)
      n1 == [Q.next EXCEPT ![q] = h]
      p1 == [Q.prev EXCEPT ![q] = t]
      n2 == [n1 EXCEPT ![t] = q]
      p2 == [p1 EXCEPT ![h] = q]
  IN  [next |-> n2, prev |-> p2]

\* remove(node): the neighbours are linked to each other; the removed
\* node's own links are left as they were
QUEUE_REMOVE(Q, q) ==
  LET n1 == [Q.next EXCEPT ![QUEUE_PREV(Q, q)] = QUEUE_NEXT(Q, q)]
      p1 == [Q.prev EXCEPT ![QUEUE_NEXT(Q, q)] = QUEUE_PREV(Q, q)]
  IN  [next |-> n1, prev |-> p1]

\* the nodes of list h from its head on, following next at most n times
RECURSIVE Walk(_, _, _, _)
Walk(Q, h, q, n) ==
  IF q = h \/ q = NULLP \/ n = 0 THEN <<>>
  ELSE <<q>> \o Walk(Q, h, QUEUE_NEXT(Q, q), n - 1)

QueueSeq(Q) == Walk(Q, WQ, QUEUE_NEXT(Q, WQ), Cardinality(Nodes))

(* ------------------------------- state -------------------------------- *)
VARIABLES
  env,          \* THREADPOOL_SIZE: [set, val], val the characters of its value
  once,         \* pthread_once_t once: "INIT", "RUNNING", "DONE"
  atfork,       \* the child handlers registered with pthread_atfork
  mutex,        \* [st: "uninit" | "init" | "destroyed", owner: thread or NOBODY]
  cond,         \* [st: "uninit" | "init" | "destroyed", waiters: set of workers]
  idle_threads,
  nthreads,
  threads,      \* "NULL", "default_threads" or "heap"
  links,        \* the queue links of wq, exit_message and the job records
  rec,          \* the job records: [work, data]
  sem,          \* init_threads' semaphore
  wpc,          \* where each worker is
  wq_,          \* each worker's local q
  cpc,          \* where each thread is in its call of the API, or "idle"
  cloc,         \* the call's arguments and locals: [w, f, q, i, late]
  fault,        \* "none", or how the process died
  child,        \* whether the behaviour follows a forked child
  forks,        \* fork() calls on the way to this process
  \* history (not read by the program)
  nsub,         \* submissions of each record so far
  inserted,     \* the nodes in the order post() inserted them
  claimed,      \* the records in the order workers claimed them
  ran,          \* <<record, callback>> in the order bodies ran
  cancelled,    \* the results of the tp_work_cancel calls on each record
  ninit,        \* runs of init_threads
  spawned       \* worker threads created

pool == <<once, atfork, mutex, cond, idle_threads, nthreads, threads, sem>>
hist == <<nsub, inserted, claimed, ran, cancelled, ninit, spawned>>
vars == <<env, pool, links, rec, wpc, wq_, cpc, cloc, fault, child, forks, hist>>

NoLocals == [w |-> NULLP, f |-> NULLFN, q |-> NULLP, i |-> 0, late |-> FALSE]

(* ----------------------- getenv, atoi, unsigned ------------------------ *)
DigitValue ==
  [ch \in {"0", "1", "2", "3", "4", "5", "6", "7", "8", "9"} |->
     CASE ch = "0" -> 0 [] ch = "1" -> 1 [] ch = "2" -> 2 [] ch = "3" -> 3
       [] ch = "4" -> 4 [] ch = "5" -> 5 [] ch = "6" -> 6 [] ch = "7" -> 7
       [] ch = "8" -> 8 [] ch = "9" -> 9]
IsDigit(ch) == ch \in DOMAIN DigitValue
DigitChar(d) == CHOOSE ch \in DOMAIN DigitValue : DigitValue[ch] = d

\* the decimal numeral of n >= 0
RECURSIVE Decimal(_)
Decimal(n) ==
  IF n < 10 THEN <<DigitChar(n)>>
  ELSE Append(Decimal(n \div 10), DigitChar(n % 10))

\* atoi: white space is skipped, then an optional sign, then the digits up
\* to the first character that is no digit; 0 when there is no digit
RECURSIVE SkipSpace(_)
SkipSpace(s) ==
  IF s # <<>> /\ Head(s) = " " THEN SkipSpace(Tail(s)) ELSE s

RECURSIVE DigitsValue(_, _)
DigitsValue(s, acc) ==
  IF s # <<>> /\ IsDigit(Head(s))
  THEN DigitsValue(Tail(s), 10 * acc + DigitValue[Head(s)])
  ELSE acc

Atoi(s) ==
  LET t == SkipSpace(s) IN
    IF t # <<>> /\ Head(t) = "-" THEN 0 - DigitsValue(Tail(t), 0)
    ELSE IF t # <<>> /\ Head(t) = "+" THEN DigitsValue(Tail(t), 0)
    ELSE DigitsValue(t, 0)

\* the conversion of an int to unsigned int (32 bits), as the pair of its
\* high and low 16 bits
Unsigned(v) ==
  IF v >= 0 THEN <<v \div 2^16, v % 2^16>>
  ELSE <<(2^16 - 1) - ((0 - v - 1) \div 2^16), (2^16 - 1) - ((0 - v - 1) % 2^16)>>

\* the environments the pool's workers are started in: THREADPOOL_SIZE is
\* the numeral of a size up to MaxEnv
EnvValues == {[set |-> TRUE, val |-> Decimal(n)] : n \in 0 .. MaxEnv}

\* the strings of at most n characters of EnvChars
EnvChars == {"0", "1", "2", "9", "-", " ", "x"}
RECURSIVE Strings(_)
Strings(n) ==
  IF n = 0 THEN {<<>>}
  ELSE Strings(n - 1) \cup {Append(s, ch) : s \in Strings(n - 1), ch \in EnvChars}

\* any environment: THREADPOOL_SIZE unset, or set to any string
AnyEnv ==
  {[set |-> FALSE, val |-> <<>>]} \cup {[set |-> TRUE, val |-> s] : s \in Strings(MaxLen)}

InitIn(E) ==
  /\ env \in E
  /\ once = "INIT"
  /\ atfork = 0
  /\ mutex = [st |-> "uninit", owner |-> NOBODY]
  /\ cond = [st |-> "uninit", waiters |-> {}]
  /\ idle_threads = 0
  /\ nthreads = 0
  /\ threads = "NULL"
  /\ links = [next |-> [n \in Nodes |-> NULLP], prev |-> [n \in Nodes |-> NULLP]]
  /\ rec = [j \in Jobs |-> [work |-> NULLFN, data |-> 0]]
  /\ sem = 0
  /\ wpc = [w \in Workers |-> "none"]
  /\ wq_ = [w \in Workers |-> NULLP]
  /\ cpc = [c \in Threads |-> "idle"]
  /\ cloc = [c \in Threads |-> NoLocals]
  /\ fault = "none"
  /\ child = FALSE
  /\ forks = 0
  /\ nsub = [j \in Jobs |-> 0]
  /\ inserted = <<>>
  /\ claimed = <<>>
  /\ ran = <<>>
  /\ cancelled = [j \in Jobs |-> <<>>]
  /\ ninit = 0
  /\ spawned = 0

Init == InitIn(EnvValues)

(* --------------------------- pthread pieces --------------------------- *)
MutexFree == mutex.st = "init" /\ mutex.owner = NOBODY
Locked(t) == [mutex EXCEPT !.owner = t]
Unlocked == [mutex EXCEPT !.owner = NOBODY]

\* pthread_cond_signal: one waiter, if there is any, leaves the wait; it
\* still has to take the mutex again.  p is wpc after the signalling
\* thread's own move.
CondSignal(p) ==
  IF cond.waiters = {}
  THEN /\ wpc' = p
       /\ cond' = cond
  ELSE \E t \in cond.waiters :
         /\ wpc' = [p EXCEPT ![t] = "woken"]
         /\ cond' = [cond EXCEPT !.waiters = @ \ {t}]

\* abort(), or a fatal signal: the process and all its running threads
\* are gone
Dies(how) ==
  /\ fault' = how
  /\ wpc' = [w \in Workers |-> IF wpc[w] \in {"none", "exited"} THEN wpc[w] ELSE "dead"]
  /\ cpc' = [c \in Threads |-> "dead"]

(* ------------------------------ worker -------------------------------- *)
\* line 161: tp_sem_post
WorkerStart(w) ==
  /\ wpc[w] = "start"
  /\ sem' = sem + 1
  /\ wpc' = [wpc EXCEPT ![w] = "lock"]
  /\ UNCHANGED <<env, once, atfork, mutex, cond, idle_threads, nthreads,
                 threads, links, rec, wq_, cpc, cloc, fault, child, forks, hist>>

\* line 166: tp_mutex_lock
WorkerLock(w) ==
  /\ wpc[w] = "lock"
  /\ MutexFree
  /\ mutex' = Locked(w)
  /\ wpc' = [wpc EXCEPT ![w] = "check"]
  /\ UNCHANGED <<env, once, atfork, cond, idle_threads, nthreads, threads,
                 sem, links, rec, wq_, cpc, cloc, fault, child, forks, hist>>

\* lines 168-171: the queue is empty; count as idle and wait, which gives
\* the mutex up
WorkerWait(w) ==
  /\ wpc[w] = "check"
  /\ QUEUE_EMPTY(links, WQ)
  /\ idle_threads' = idle_threads + 1
  /\ mutex' = Unlocked
  /\ cond' = [cond EXCEPT !.waiters = @ \cup {w}]
  /\ wpc' = [wpc EXCEPT ![w] = "waiting"]
  /\ UNCHANGED <<env, once, atfork, nthreads, threads, sem, links, rec, wq_,
                 cpc, cloc, fault, child, forks, hist>>

\* pthread_cond_wait may return with no signal sent
SpuriousWake(w) ==
  /\ wpc[w] = "waiting"
  /\ w \in cond.waiters
  /\ cond' = [cond EXCEPT !.waiters = @ \ {w}]
  /\ wpc' = [wpc EXCEPT ![w] = "woken"]
  /\ UNCHANGED <<env, once, atfork, mutex, idle_threads, nthreads, threads,
                 sem, links, rec, wq_, cpc, cloc, fault, child, forks, hist>>

\* lines 171-172: the wait returns with the mutex held; no longer idle
WorkerWake(w) ==
  /\ wpc[w] = "woken"
  /\ MutexFree
  /\ mutex' = Locked(w)
  /\ idle_threads' = idle_threads - 1
  /\ wpc' = [wpc EXCEPT ![w] = "check"]
  /\ UNCHANGED <<env, once, atfork, cond, nthreads, threads, sem, links, rec,
                 wq_, cpc, cloc, fault, child, forks, hist>>

\* lines 175-178: the head is the exit sentinel; signal when resignal
WorkerAtExit(w, resignal) ==
  /\ wpc[w] = "check"
  /\ ~QUEUE_EMPTY(links, WQ)
  /\ QUEUE_HEAD(links, WQ) = EXIT_MESSAGE
  /\ wq_' = [wq_ EXCEPT ![w] = EXIT_MESSAGE]
  /\ IF resignal
     THEN CondSignal([wpc EXCEPT ![w] = "unlock"])
     ELSE wpc' = [wpc EXCEPT ![w] = "unlock"] /\ cond' = cond
  /\ UNCHANGED <<env, once, atfork, mutex, idle_threads, nthreads, threads,
                 sem, links, rec, cpc, cloc, fault, child, forks, hist>>

\* mutant: the exiting worker does not signal
WorkerSeeExitSilent(w) == WorkerAtExit(w, FALSE)
\* lines 175-178: the head is the exit sentinel; signal a sibling
WorkerSeeExit(w) == WorkerAtExit(w, TRUE)

\* lines 175-183: q is a job; QUEUE_REMOVE(q), then QUEUE_INIT(q) when reset
WorkerTake(w, q, reset) ==
  /\ wpc[w] = "check"
  /\ ~QUEUE_EMPTY(links, WQ)
  /\ q # EXIT_MESSAGE
  /\ wq_' = [wq_ EXCEPT ![w] = q]
  /\ links' = IF reset THEN QUEUE_INIT(QUEUE_REMOVE(links, q), q)
                       ELSE QUEUE_REMOVE(links, q)
  /\ claimed' = Append(claimed, q)
  /\ wpc' = [wpc EXCEPT ![w] = "unlock"]
  /\ UNCHANGED <<env, pool, rec, cpc, cloc, fault, child, forks,
                 nsub, inserted, ran, cancelled, ninit, spawned>>

\* mutant: the worker takes the tail
WorkerClaimTail(w) == WorkerTake(w, QUEUE_PREV(links, WQ), TRUE)
\* mutant: the claimed node is not reset
WorkerClaimNoInit(w) == WorkerTake(w, QUEUE_HEAD(links, WQ), FALSE)
\* lines 175-183: the head is a job; remove it and reset its queue node
WorkerClaim(w) == WorkerTake(w, QUEUE_HEAD(links, WQ), TRUE)

\* lines 185-188: the mutex becomes m; leave the loop on the exit sentinel
WorkerLeaveSection(w, m) ==
  /\ wpc[w] = "unlock"
  /\ mutex' = m
  /\ wpc' = [wpc EXCEPT ![w] = IF wq_[w] = EXIT_MESSAGE THEN "exited" ELSE "run"]
  /\ UNCHANGED <<env, once, atfork, cond, idle_threads, nthreads, threads,
                 sem, links, rec, wq_, cpc, cloc, fault, child, forks, hist>>

\* mutant: the worker keeps the mutex while it runs the job
WorkerKeepsMutex(w) == WorkerLeaveSection(w, mutex)
\* lines 185-188: unlock; leave the loop on the exit sentinel
WorkerUnlock(w) == WorkerLeaveSection(w, Unlocked)

\* lines 190-191: w->work(w).  A NULL callback is a jump through NULL, the
\* trap handler aborts (lines 45-48), a job body runs and returns.
WorkerRun(w) ==
  /\ wpc[w] = "run"
  /\ LET f == rec[wq_[w]].work IN
       CASE f = NULLFN -> Dies("segv") /\ UNCHANGED ran
         [] f = TP_CANCELLED -> Dies("abort") /\ UNCHANGED ran
         [] OTHER ->
              /\ ran' = Append(ran, <<wq_[w], f>>)
              /\ wpc' = [wpc EXCEPT ![w] = "clear"]
              /\ UNCHANGED <<fault, cpc>>
  /\ UNCHANGED <<env, pool, links, rec, wq_, cloc, child, forks,
                 nsub, inserted, claimed, cancelled, ninit, spawned>>

\* line 192: w->work = NULL
WorkerClear(w) ==
  /\ wpc[w] = "clear"
  /\ rec' = [rec EXCEPT ![wq_[w]].work = NULLFN]
  /\ wpc' = [wpc EXCEPT ![w] = "lock"]
  /\ wq_' = [wq_ EXCEPT ![w] = NULLP]
  /\ UNCHANGED <<env, pool, links, cpc, cloc, fault, child, forks, hist>>

\* line 191, a job body that calls the API: the body is entered
WorkerBody(w) ==
  /\ wpc[w] = "run"
  /\ rec[wq_[w]].work \notin {NULLFN, TP_CANCELLED}
  /\ wpc' = [wpc EXCEPT ![w] = "body"]
  /\ UNCHANGED <<env, pool, links, rec, wq_, cpc, cloc, fault, child, forks, hist>>

\* line 191: the body returns, its calls having returned
WorkerBodyReturn(w) ==
  /\ wpc[w] = "body"
  /\ cpc[w] = "idle"
  /\ ran' = Append(ran, <<wq_[w], rec[wq_[w]].work>>)
  /\ wpc' = [wpc EXCEPT ![w] = "clear"]
  /\ UNCHANGED <<env, pool, links, rec, wq_, cpc, cloc, fault, child, forks,
                 nsub, inserted, claimed, cancelled, ninit, spawned>>

(* ------------------------- what a caller may do ----------------------- *)
Count(s, P(_)) == Cardinality({k \in 1 .. Len(s) : P(s[k])})
\* bodies of record j that ran: the flag a job body sets, as its caller reads it
Runs(j) == Count(ran, LAMBDA e : e[1] = j)
CancelsOk(j) == Count(cancelled[j], LAMBDA r : r = 0)
InCall(j) == \E c \in Threads : cpc[c] # "idle" /\ cloc[c].w = j
\* The record is the pool's: submitted, and neither seen to have run nor
\* cancelled.  Section 3 of the spec: the caller keeps such a record as it is.
Owned(j) == nsub[j] > Runs(j) + CancelsOk(j)

(* --------------------------- tp_work_submit --------------------------- *)
\* a caller enters tp_work_submit(w, work, data) with a record of its own;
\* the k-th submission of a record brings callback k
CallSubmit(c, j) ==
  /\ cpc[c] = "idle"
  /\ ~InCall(j) /\ ~Owned(j)
  /\ nsub[j] < MaxSubmits
  /\ nsub' = [nsub EXCEPT ![j] = @ + 1]
  /\ cloc' = [cloc EXCEPT ![c] = [NoLocals EXCEPT !.w = j, !.f = nsub[j] + 1,
                                   !.late = (once = "DONE" /\ nthreads = 0)]]
  /\ cpc' = [cpc EXCEPT ![c] = "s_once"]
  /\ UNCHANGED <<env, pool, links, rec, wpc, wq_, fault, child, forks,
                 inserted, claimed, ran, cancelled, ninit, spawned>>

\* line 294: pthread_once finds the routine done
OncePass(c) ==
  /\ cpc[c] = "s_once"
  /\ once = "DONE"
  /\ cpc' = [cpc EXCEPT ![c] = "s_set"]
  /\ UNCHANGED <<env, pool, links, rec, wpc, wq_, cloc, fault, child, forks, hist>>

\* line 294: pthread_once finds the routine not run, marks the guard and
\* runs the routine in this thread
OnceEnter(c, mark) ==
  /\ cpc[c] = "s_once"
  /\ once = "INIT"
  /\ once' = mark
  /\ cpc' = [cpc EXCEPT ![c] = "i_atfork"]
  /\ UNCHANGED <<env, atfork, mutex, cond, idle_threads, nthreads, threads,
                 sem, links, rec, wpc, wq_, cloc, fault, child, forks, hist>>

\* mutant: the guard is tested and not marked
OnceBeginUnmarked(c) == OnceEnter(c, "INIT")
\* line 294: pthread_once runs the routine in the first caller; a caller
\* that finds it running waits
OnceBegin(c) == OnceEnter(c, "RUNNING")

\* line 285: pthread_atfork(NULL, NULL, &reset_the_once)
InitAtfork(c) ==
  /\ cpc[c] = "i_atfork"
  /\ atfork' = atfork + 1
  /\ cpc' = [cpc EXCEPT ![c] = "i_setup"]
  /\ UNCHANGED <<env, once, mutex, cond, idle_threads, nthreads, threads,
                 sem, links, rec, wpc, wq_, cloc, fault, child, forks, hist>>

\* lines 234-241: the pool size
PoolSize(val) ==
  LET n0 == IF val.set THEN Unsigned(Atoi(val.val)) ELSE Unsigned(DEFAULT_THREADS)
      n1 == IF n0 = Unsigned(0) THEN Unsigned(1) ELSE n0
      n2 == IF n1[1] > 0 \/ n1[2] > MAX_THREADPOOL_SIZE
            THEN Unsigned(MAX_THREADPOOL_SIZE) ELSE n1
  IN  n2[2]

\* lines 234-263: size, thread table (mem is what malloc returns when it
\* is called), condition variable, mutex, queue, semaphore (the pthread
\* calls succeed)
InitSetupWith(c, mem, fallback) ==
  /\ cpc[c] = "i_setup"
  /\ IF PoolSize(env) > DEFAULT_THREADS
     THEN IF mem = "NULL"
          THEN nthreads' = fallback /\ threads' = "default_threads"
          ELSE nthreads' = PoolSize(env) /\ threads' = mem
     ELSE nthreads' = PoolSize(env) /\ threads' = "default_threads"
  /\ cond' = [st |-> "init", waiters |-> {}]
  /\ mutex' = [st |-> "init", owner |-> NOBODY]
  /\ links' = QUEUE_INIT(links, WQ)
  /\ sem' = 0
  /\ ninit' = ninit + 1
  /\ cloc' = [cloc EXCEPT ![c].i = 0]
  /\ cpc' = [cpc EXCEPT ![c] = "i_create"]
  /\ UNCHANGED <<env, once, atfork, idle_threads, rec, wpc, wq_, fault, child, forks,
                 nsub, inserted, claimed, ran, cancelled, spawned>>

\* mutant: the fallback keeps the configured count for the built-in table
InitSetupNoMemKeepsCount(c) == InitSetupWith(c, "NULL", PoolSize(env))
\* lines 243-252 with malloc returning NULL: the built-in table and its size
InitSetupNoMem(c) == InitSetupWith(c, "NULL", DEFAULT_THREADS)
\* lines 234-263 with malloc returning the table
InitSetup(c) == InitSetupWith(c, "heap", DEFAULT_THREADS)

\* lines 265-269: one turn of the loop creating the workers
InitCreate(c) ==
  /\ cpc[c] = "i_create"
  /\ IF cloc[c].i < nthreads
     THEN /\ wpc' = [wpc EXCEPT ![cloc[c].i + 1] = "start"]
          /\ wq_' = [wq_ EXCEPT ![cloc[c].i + 1] = NULLP]
          /\ spawned' = spawned + 1
          /\ cloc' = [cloc EXCEPT ![c].i = @ + 1]
          /\ cpc' = cpc
     ELSE /\ cloc' = [cloc EXCEPT ![c].i = 0]
          /\ cpc' = [cpc EXCEPT ![c] = "i_semwait"]
          /\ UNCHANGED <<wpc, wq_, spawned>>
  /\ UNCHANGED <<env, pool, links, rec, fault, child, forks,
                 nsub, inserted, claimed, ran, cancelled, ninit>>

\* lines 271-272: one tp_sem_wait of the loop
InitSemWait(c) ==
  /\ cpc[c] = "i_semwait"
  /\ cloc[c].i < nthreads
  /\ sem > 0
  /\ sem' = sem - 1
  /\ cloc' = [cloc EXCEPT ![c].i = @ + 1]
  /\ UNCHANGED <<env, once, atfork, mutex, cond, idle_threads, nthreads,
                 threads, links, rec, wpc, wq_, cpc, fault, child, forks, hist>>

\* lines 274-275 and 294: init_threads returns once the loop of waits is
\* over, and with it pthread_once
InitReturn(c, over) ==
  /\ cpc[c] = "i_semwait"
  /\ over
  /\ once' = "DONE"
  /\ cloc' = [cloc EXCEPT ![c].i = 0]
  /\ cpc' = [cpc EXCEPT ![c] = "s_set"]
  /\ UNCHANGED <<env, atfork, mutex, cond, idle_threads, nthreads, threads,
                 sem, links, rec, wpc, wq_, fault, child, forks, hist>>

\* mutant: init_threads returns without waiting for every post
InitDoneNoBarrier(c) == InitReturn(c, TRUE)
\* lines 271-275: the loop has waited nthreads times
InitDone(c) == InitReturn(c, cloc[c].i = nthreads)

\* lines 295-297: the record's fields are set, post(&w->queue_node) is called
SubmitSet(c) ==
  /\ cpc[c] = "s_set"
  /\ rec' = [rec EXCEPT ![cloc[c].w] = [work |-> cloc[c].f, data |-> cloc[c].f]]
  /\ cloc' = [cloc EXCEPT ![c].q = cloc[c].w]
  /\ cpc' = [cpc EXCEPT ![c] = "p_lock"]
  /\ UNCHANGED <<env, pool, links, wpc, wq_, fault, child, forks, hist>>

(* -------------------------------- post -------------------------------- *)
\* line 198: tp_mutex_lock
PostLock(c) ==
  /\ cpc[c] = "p_lock"
  /\ MutexFree
  /\ mutex' = Locked(c)
  /\ cpc' = [cpc EXCEPT ![c] = "p_post"]
  /\ UNCHANGED <<env, once, atfork, cond, idle_threads, nthreads, threads,
                 sem, links, rec, wpc, wq_, cloc, fault, child, forks, hist>>

\* lines 199-202: insert at the tail, signal when wake, unlock;
\* tp_work_submit returns, destory_threads goes on to join
PostSection(c, wake) ==
  /\ cpc[c] = "p_post"
  /\ links' = QUEUE_INSERT_TAIL(links, WQ, cloc[c].q)
  /\ inserted' = Append(inserted, cloc[c].q)
  /\ IF wake
     THEN CondSignal(wpc)
     ELSE UNCHANGED <<wpc, cond>>
  /\ mutex' = Unlocked
  /\ IF cloc[c].q = EXIT_MESSAGE
     THEN /\ cpc' = [cpc EXCEPT ![c] = "d_join"]
          /\ cloc' = [cloc EXCEPT ![c].i = 0]
     ELSE /\ cpc' = [cpc EXCEPT ![c] = "idle"]
          /\ cloc' = [cloc EXCEPT ![c] = NoLocals]
  /\ UNCHANGED <<env, once, atfork, idle_threads, nthreads, threads, sem,
                 rec, wq_, fault, child, forks,
                 nsub, claimed, ran, cancelled, ninit, spawned>>

\* mutant: the signal is sent only when two workers are idle
PostInsertLate(c) == PostSection(c, idle_threads > 1)
\* lines 199-202: signal if at least one worker is idle
PostInsert(c) == PostSection(c, idle_threads > 0)

\* line 198 after pthread_mutex_destroy (line 221): locking a destroyed
\* mutex is undefined; the call fails and tp_mutex_lock aborts, or it locks
PostLockDestroyed(c) ==
  /\ cpc[c] = "p_lock"
  /\ mutex.st = "destroyed"
  /\ mutex.owner = NOBODY
  /\ \/ Dies("abort") /\ UNCHANGED mutex
     \/ /\ mutex' = Locked(c)
        /\ cpc' = [cpc EXCEPT ![c] = "p_post"]
        /\ UNCHANGED <<wpc, fault>>
  /\ UNCHANGED <<env, once, atfork, cond, idle_threads, nthreads, threads,
                 sem, links, rec, wq_, cloc, child, forks, hist>>

(* --------------------------- tp_work_cancel --------------------------- *)
\* a caller enters tp_work_cancel(w) with a record that was submitted, the
\* tp_work_submit call having returned
CallCancel(c, j) ==
  /\ cpc[c] = "idle"
  /\ nsub[j] > 0
  /\ ~InCall(j)
  /\ Len(cancelled[j]) < MaxCancels
  /\ cloc' = [cloc EXCEPT ![c] = [NoLocals EXCEPT !.w = j]]
  /\ cpc' = [cpc EXCEPT ![c] = "c_lock"]
  /\ UNCHANGED <<env, pool, links, rec, wpc, wq_, fault, child, forks, hist>>

\* mutant: tp_work_cancel enters its section without the mutex
CancelNoLock(c) ==
  /\ cpc[c] = "c_lock"
  /\ cpc' = [cpc EXCEPT ![c] = "c_cs"]
  /\ UNCHANGED <<env, pool, links, rec, wpc, wq_, cloc, fault, child, forks, hist>>

\* line 304: tp_mutex_lock
CancelLock(c) ==
  /\ cpc[c] = "c_lock"
  /\ MutexFree
  /\ mutex' = Locked(c)
  /\ cpc' = [cpc EXCEPT ![c] = "c_cs"]
  /\ UNCHANGED <<env, once, atfork, cond, idle_threads, nthreads, threads,
                 sem, links, rec, wpc, wq_, cloc, fault, child, forks, hist>>

\* lines 306-313: with can the value of cancelled: remove the node when
\* set, unlock, return -1 when not set
CancelSection(c, can) ==
  /\ cpc[c] = "c_cs"
  /\ links' = IF can THEN QUEUE_REMOVE(links, cloc[c].w) ELSE links
  /\ mutex' = Unlocked
  /\ IF can
     THEN /\ cpc' = [cpc EXCEPT ![c] = "c_mark"]
          /\ UNCHANGED <<cloc, cancelled>>
     ELSE /\ cancelled' = [cancelled EXCEPT ![cloc[c].w] = Append(@, -1)]
          /\ cpc' = [cpc EXCEPT ![c] = "idle"]
          /\ cloc' = [cloc EXCEPT ![c] = NoLocals]
  /\ UNCHANGED <<env, once, atfork, cond, idle_threads, nthreads, threads,
                 sem, rec, wpc, wq_, fault, child, forks,
                 nsub, inserted, claimed, ran, ninit, spawned>>

\* mutant: the queue node is not tested
CancelCheckWorkOnly(c) == CancelSection(c, rec[cloc[c].w].work # NULLFN)
\* lines 306-313: cancelled = !QUEUE_EMPTY(&w->queue_node) && w->work != NULL
CancelCheck(c) ==
  CancelSection(c, ~QUEUE_EMPTY(links, cloc[c].w) /\ rec[cloc[c].w].work # NULLFN)

\* lines 315-317: w->work = tp_cancelled; return 0
CancelMark(c) ==
  /\ cpc[c] = "c_mark"
  /\ rec' = [rec EXCEPT ![cloc[c].w].work = TP_CANCELLED]
  /\ cancelled' = [cancelled EXCEPT ![cloc[c].w] = Append(@, 0)]
  /\ cpc' = [cpc EXCEPT ![c] = "idle"]
  /\ cloc' = [cloc EXCEPT ![c] = NoLocals]
  /\ UNCHANGED <<env, pool, links, wpc, wq_, fault, child, forks,
                 nsub, inserted, claimed, ran, ninit, spawned>>

(* -------------------------- destory_threads --------------------------- *)
InDestroy(c) ==
  \/ cpc[c] \in {"d_join"}
  \/ cpc[c] \in {"p_lock", "p_post"} /\ cloc[c].q = EXIT_MESSAGE

\* lines 209-212: a caller enters destory_threads, no other thread being in
\* it nor in init_threads; it returns at once when there is no pool
DestroyCheck(c) ==
  /\ cpc[c] = "idle"
  /\ once # "RUNNING"
  /\ \A d \in Callers : ~InDestroy(d)
  /\ IF nthreads = 0
     THEN UNCHANGED <<cpc, cloc>>
     ELSE /\ cpc' = [cpc EXCEPT ![c] = "p_lock"]
          /\ cloc' = [cloc EXCEPT ![c] = [NoLocals EXCEPT !.q = EXIT_MESSAGE]]
  /\ UNCHANGED <<env, pool, links, rec, wpc, wq_, fault, child, forks, hist>>

\* lines 214-216: one turn of the loop of joins; pthread_join(threads[i])
\* returns when that worker has returned from worker()
DestroyJoin(c) ==
  /\ cpc[c] = "d_join"
  /\ cloc[c].i < nthreads
  /\ wpc[cloc[c].i + 1] = "exited"
  /\ cloc' = [cloc EXCEPT ![c].i = @ + 1]
  /\ UNCHANGED <<env, pool, links, rec, wpc, wq_, cpc, fault, child, forks, hist>>

\* lines 218-225: free the table, destroy mutex and condition variable,
\* threads = NULL, nthreads = 0
DestroyFinish(c) ==
  /\ cpc[c] = "d_join"
  /\ cloc[c].i = nthreads
  /\ mutex' = [mutex EXCEPT !.st = "destroyed"]
  /\ cond' = [cond EXCEPT !.st = "destroyed"]
  /\ threads' = "NULL"
  /\ nthreads' = 0
  /\ cpc' = [cpc EXCEPT ![c] = "idle"]
  /\ cloc' = [cloc EXCEPT ![c] = NoLocals]
  /\ UNCHANGED <<env, once, atfork, idle_threads, sem, links, rec, wpc, wq_,
                 fault, child, forks, hist>>

(* -------------------------------- fork -------------------------------- *)
\* lines 277-281: reset_the_once
ResetTheOnce == "INIT"

\* fork() in an idle caller of a process whose pool is initialized, seen
\* from the parent: the registration of line 285 names no prepare and no
\* parent handler, so nothing of the pool runs in the parent
ForkParent(c) ==
  /\ cpc[c] = "idle"
  /\ once = "DONE"
  /\ nthreads > 0
  /\ forks < MaxForks
  /\ forks' = forks + 1
  /\ UNCHANGED <<env, pool, links, rec, wpc, wq_, cpc, cloc, fault, child, hist>>

\* the same fork() seen from the child: the memory is the parent's, the
\* forking thread is the only thread, and the child handlers registered at
\* line 285 have run (inChild: whether reset_the_once is among them).  The
\* mutex and the condition variable are copied as they are, held or
\* waited on by threads that do not exist in the child; pthread_mutex_init
\* and pthread_cond_init on them (InitSetup) make them fresh, as they do
\* in glibc and musl.
ForkInChild(c, inChild) ==
  /\ cpc[c] = "idle"
  /\ once = "DONE"
  /\ nthreads > 0
  /\ forks < MaxForks
  /\ forks' = forks + 1
  /\ child' = TRUE
  /\ once' = IF inChild /\ atfork > 0 THEN ResetTheOnce ELSE once
  /\ wpc' = [w \in Workers |-> "none"]
  /\ wq_' = [w \in Workers |-> NULLP]
  /\ cpc' = [d \in Threads |-> IF d \in Callers \ {c} THEN "gone" ELSE "idle"]
  /\ cloc' = [d \in Threads |-> NoLocals]
  /\ nsub' = [j \in Jobs |-> 0]
  /\ inserted' = <<>>
  /\ claimed' = <<>>
  /\ ran' = <<>>
  /\ cancelled' = [j \in Jobs |-> <<>>]
  /\ ninit' = 0
  /\ spawned' = 0
  /\ UNCHANGED <<env, atfork, mutex, cond, idle_threads, nthreads, threads,
                 sem, links, rec, fault>>

\* mutant: no child handler is registered
ForkChildKeepsOnce(c) == ForkInChild(c, FALSE)
\* lines 277-285: reset_the_once is registered as the child handler
ForkChild(c) == ForkInChild(c, TRUE)

(* ------------------------- the specifications ------------------------- *)
\* the worker loop while no exit sentinel is posted
WorkerLoop(w) ==
  \/ WorkerStart(w)
  \/ WorkerLock(w)
  \/ WorkerWait(w)
  \/ WorkerWake(w)
  \/ WorkerClaim(w)
  \/ WorkerUnlock(w)
  \/ WorkerRun(w)
  \/ WorkerClear(w)

\* a caller inside tp_work_submit
SubmitStep(c) ==
  \/ OncePass(c)
  \/ OnceBegin(c)
  \/ InitAtfork(c)
  \/ InitSetup(c)
  \/ InitCreate(c)
  \/ InitSemWait(c)
  \/ InitDone(c)
  \/ SubmitSet(c)
  \/ PostLock(c)
  \/ PostInsert(c)

\* a caller inside tp_work_cancel
CancelStep(c) ==
  \/ CancelLock(c)
  \/ CancelCheck(c)
  \/ CancelMark(c)

\* a caller inside destory_threads, past post()
DestroyStep(c) ==
  \/ DestroyJoin(c)
  \/ DestroyFinish(c)

\* Submissions of distinct records: no reuse, no cancel, no shutdown, no fork.
Next ==
  \/ \E w \in Workers : WorkerLoop(w)
  \/ \E w \in Workers : SpuriousWake(w)
  \/ \E c \in Callers : SubmitStep(c)
  \/ \E c \in Callers, j \in Jobs : nsub[j] = 0 /\ CallSubmit(c, j)

\* Every thread that can take a step of the code eventually takes one, and
\* a thread that asks for the mutex (at one of the places where the code
\* locks it) gets it if the mutex is free again and again.  A wait
\* returning with no signal, and a caller making a new call, are never
\* forced.
MutexAcquire(t) ==
  \/ t \in Workers /\ WorkerLock(t)
  \/ t \in Workers /\ WorkerWake(t)
  \/ PostLock(t)
  \/ CancelLock(t)

Fairness ==
  /\ \A w \in Workers : WF_vars(WorkerLoop(w)) /\ SF_vars(MutexAcquire(w))
  /\ \A c \in Callers : WF_vars(SubmitStep(c)) /\ SF_vars(MutexAcquire(c))

Spec == Init /\ [][Next]_vars /\ Fairness

\* Records are submitted again once their body was seen to have run.
NextReuse ==
  \/ \E w \in Workers : WorkerLoop(w)
  \/ \E w \in Workers : SpuriousWake(w)
  \/ \E c \in Callers : SubmitStep(c)
  \/ \E c \in Callers, j \in Jobs : CallSubmit(c, j)

SpecReuse == Init /\ [][NextReuse]_vars /\ Fairness

\* Each record is submitted once and cancelled at most once.
NextCancel ==
  \/ \E w \in Workers : WorkerLoop(w)
  \/ \E w \in Workers : SpuriousWake(w)
  \/ \E c \in Callers : SubmitStep(c)
  \/ \E c \in Callers : CancelStep(c)
  \/ \E c \in Callers, j \in Jobs : nsub[j] = 0 /\ CallSubmit(c, j)
  \/ \E c \in Callers, j \in Jobs : cancelled[j] = <<>> /\ CallCancel(c, j)

FairnessCancel ==
  /\ Fairness
  /\ \A c \in Callers : WF_vars(CancelStep(c))

SpecCancel == Init /\ [][NextCancel]_vars /\ FairnessCancel

\* Submissions, one destory_threads at a time, and submissions after it.
NextShutdown ==
  \/ \E w \in Workers : WorkerLoop(w)
  \/ \E w \in Workers : WorkerSeeExit(w)
  \/ \E w \in Workers : SpuriousWake(w)
  \/ \E c \in Callers : SubmitStep(c)
  \/ \E c \in Callers : PostLockDestroyed(c)
  \/ \E c \in Callers : DestroyCheck(c)
  \/ \E c \in Callers : DestroyStep(c)
  \/ \E c \in Callers, j \in Jobs : nsub[j] = 0 /\ CallSubmit(c, j)

FairnessShutdown ==
  /\ Fairness
  /\ \A w \in Workers : WF_vars(WorkerSeeExit(w))
  /\ \A c \in Callers : WF_vars(DestroyStep(c))

SpecShutdown == Init /\ [][NextShutdown]_vars /\ FairnessShutdown

\* Submissions and a fork, followed into the parent or into the child.
NextFork ==
  \/ \E w \in Workers : WorkerLoop(w)
  \/ \E w \in Workers : SpuriousWake(w)
  \/ \E c \in Callers : SubmitStep(c)
  \/ \E c \in Callers : ForkParent(c)
  \/ \E c \in Callers : ForkChild(c)
  \/ \E c \in Callers, j \in Jobs : nsub[j] = 0 /\ CallSubmit(c, j)

SpecFork == Init /\ [][NextFork]_vars /\ Fairness

\* The submissions of a process configured with a size above the built-in
\* table, malloc returning NULL; one thread submits, as main does.
FallbackEnv ==
  {[set |-> TRUE, val |-> Decimal(DEFAULT_THREADS + n)] : n \in 1 .. MaxEnv}
MainThread == {c \in Callers : \A d \in Callers : c <= d}

InitFallback == InitIn(FallbackEnv)

SubmitStepNoMem(c) ==
  \/ OncePass(c)
  \/ OnceBegin(c)
  \/ InitAtfork(c)
  \/ InitSetupNoMem(c)
  \/ InitCreate(c)
  \/ InitSemWait(c)
  \/ InitDone(c)
  \/ SubmitSet(c)
  \/ PostLock(c)
  \/ PostInsert(c)

NextFallback ==
  \/ \E w \in Workers : WorkerLoop(w)
  \/ \E w \in Workers : SpuriousWake(w)
  \/ \E c \in MainThread : SubmitStepNoMem(c)
  \/ \E c \in MainThread, j \in Jobs : nsub[j] = 0 /\ CallSubmit(c, j)

FairnessFallback ==
  /\ \A w \in Workers : WF_vars(WorkerLoop(w)) /\ SF_vars(MutexAcquire(w))
  /\ \A c \in MainThread : WF_vars(SubmitStepNoMem(c)) /\ SF_vars(MutexAcquire(c))

SpecFallback == InitFallback /\ [][NextFallback]_vars /\ FairnessFallback

\* Each record is submitted once and cancelled up to MaxCancels times.
NextRecancel ==
  \/ \E w \in Workers : WorkerLoop(w)
  \/ \E w \in Workers : SpuriousWake(w)
  \/ \E c \in Callers : SubmitStep(c)
  \/ \E c \in Callers : CancelStep(c)
  \/ \E c \in Callers, j \in Jobs : nsub[j] = 0 /\ CallSubmit(c, j)
  \/ \E c \in Callers, j \in Jobs : CallCancel(c, j)

SpecRecancel == Init /\ [][NextRecancel]_vars /\ FairnessCancel

\* Submissions, cancels and one destory_threads, up to the point where it
\* has joined the workers.
NextDrain ==
  \/ \E w \in Workers : WorkerLoop(w)
  \/ \E w \in Workers : WorkerSeeExit(w)
  \/ \E w \in Workers : SpuriousWake(w)
  \/ \E c \in Callers : SubmitStep(c)
  \/ \E c \in Callers : CancelStep(c)
  \/ \E c \in Callers : DestroyCheck(c)
  \/ \E c \in Callers : DestroyJoin(c)
  \/ \E c \in Callers, j \in Jobs : nsub[j] = 0 /\ CallSubmit(c, j)
  \/ \E c \in Callers, j \in Jobs : cancelled[j] = <<>> /\ CallCancel(c, j)

FairnessDrain ==
  /\ FairnessCancel
  /\ \A w \in Workers : WF_vars(WorkerSeeExit(w))
  /\ \A c \in Callers : WF_vars(DestroyJoin(c))

SpecDrain == Init /\ [][NextDrain]_vars /\ FairnessDrain

\* The same, with tp_work_cancel also called on records it was called on
\* before.
NextDrainRecancel ==
  \/ \E w \in Workers : WorkerLoop(w)
  \/ \E w \in Workers : WorkerSeeExit(w)
  \/ \E w \in Workers : SpuriousWake(w)
  \/ \E c \in Callers : SubmitStep(c)
  \/ \E c \in Callers : CancelStep(c)
  \/ \E c \in Callers : DestroyCheck(c)
  \/ \E c \in Callers : DestroyJoin(c)
  \/ \E c \in Callers, j \in Jobs : nsub[j] = 0 /\ CallSubmit(c, j)
  \/ \E c \in Callers, j \in Jobs : CallCancel(c, j)

SpecDrainRecancel == Init /\ [][NextDrainRecancel]_vars /\ FairnessDrain

\* Job bodies that call tp_work_submit and tp_work_cancel on other records,
\* next to the callers' submissions and cancels.
BodyCall(w, j) == wpc[w] = "body" /\ j # wq_[w]

NextReentry ==
  \/ \E w \in Workers : WorkerLoop(w)
  \/ \E w \in Workers : SpuriousWake(w)
  \/ \E w \in Workers : WorkerBody(w)
  \/ \E w \in Workers : WorkerBodyReturn(w)
  \/ \E c \in Threads : SubmitStep(c)
  \/ \E c \in Threads : CancelStep(c)
  \/ \E c \in Callers, j \in Jobs : nsub[j] = 0 /\ CallSubmit(c, j)
  \/ \E c \in Callers, j \in Jobs : cancelled[j] = <<>> /\ CallCancel(c, j)
  \/ \E w \in Workers, j \in Jobs : BodyCall(w, j) /\ nsub[j] = 0 /\ CallSubmit(w, j)
  \/ \E w \in Workers, j \in Jobs : BodyCall(w, j) /\ cancelled[j] = <<>> /\ CallCancel(w, j)

\* a body that can return does; a worker inside a call of the API is as
\* fair as a caller is
FairnessReentry ==
  /\ FairnessCancel
  /\ \A w \in Workers : WF_vars(WorkerBodyReturn(w))
  /\ \A w \in Workers : WF_vars(SubmitStep(w)) /\ WF_vars(CancelStep(w))

SpecReentry == Init /\ [][NextReentry]_vars /\ FairnessReentry

\* The first tp_work_submit of a process in any environment, up to the
\* point where init_threads has sized the pool.
InitSize == InitIn(AnyEnv)

NextSize ==
  \/ \E c \in Callers : OnceBegin(c)
  \/ \E c \in Callers : InitAtfork(c)
  \/ \E c \in Callers : InitSetup(c)
  \/ \E c \in Callers, j \in Jobs : nsub[j] = 0 /\ CallSubmit(c, j)

SpecSize == InitSize /\ [][NextSize]_vars

(* ------------------------------ claims -------------------------------- *)
IsPrefix(s, t) == Len(s) <= Len(t) /\ \A k \in 1 .. Len(s) : s[k] = t[k]
Pooled == 1 .. nthreads
InQueue(n) == \E k \in 1 .. Len(QueueSeq(links)) : QueueSeq(links)[k] = n
RanJobs == [k \in 1 .. Len(ran) |-> ran[k][1]]

\* C1 (no lost jobs): a job is never left in the queue with every worker
\* blocked in the condition wait, no job body runs twice, and every
\* submitted job eventually has run exactly once.
NoQueuedJobWithAllAsleep ==
  QueueSeq(links) # <<>> => \E w \in Pooled : w \notin cond.waiters

C1_NoLostJobs ==
  /\ [](NoQueuedJobWithAllAsleep /\ fault = "none")
  /\ [](\A j \in Jobs : Runs(j) <= 1)
  /\ \A j \in Jobs : (nsub[j] > 0) ~> (Runs(j) = 1)

\* every record was submitted and has run, in a pool of several workers
\* that are all back in the wait
C1_Witness ==
  /\ nthreads > 1
  /\ \A j \in Jobs : nsub[j] = 1 /\ Runs(j) = 1
  /\ cond.waiters = Pooled

ClaimedSet == {claimed[k] : k \in 1 .. Len(claimed)}
Returned(j, r) == cancelled[j] = <<r>>

\* C2 (cancellation race is binary): for a record submitted once and
\* cancelled once, the trap handler is never invoked and no NULL callback
\* is called; the body never runs twice; when tp_work_cancel has returned 0
\* the body has not run and never runs; when it has returned -1 the body
\* runs (eventually) exactly once.
C2_CancelBinary ==
  /\ [](fault = "none")
  /\ [](\A j \in Jobs : Runs(j) <= 1 /\ (Returned(j, 0) => Runs(j) = 0))
  /\ \A j \in Jobs : Returned(j, -1) ~> (Runs(j) = 1)

\* both outcomes in one run: one record cancelled in time, another too late
C2_Witness ==
  \E j, k \in Jobs :
    /\ Returned(j, 0) /\ Runs(j) = 0 /\ rec[j].work = TP_CANCELLED
    /\ Returned(k, -1) /\ Runs(k) = 1

\* C3 (claimed means not cancellable): a tp_work_cancel whose critical
\* section runs after a worker has claimed the record returns -1 and leaves
\* the queue links as they were.
C3_ClaimedNotCancellable ==
  [][\A c \in Callers :
       (cpc[c] = "c_cs" /\ cpc'[c] # "c_cs" /\ cloc[c].w \in ClaimedSet)
         => /\ cpc'[c] = "idle"
            /\ cancelled'[cloc[c].w] = Append(cancelled[cloc[c].w], -1)
            /\ links' = links]_vars

\* a cancel has failed on a record that a worker has claimed and whose body
\* has not started: its work field is still set
C3_Witness ==
  \E j \in Jobs, w \in Workers :
    /\ wpc[w] = "run" /\ wq_[w] = j
    /\ rec[j].work # NULLFN
    /\ Returned(j, -1)

\* C4 (FIFO dequeue): without cancellation the records are claimed in the
\* order post() inserted them, and a pool of one worker runs the bodies in
\* that order.
C4_Fifo ==
  /\ IsPrefix(claimed, inserted)
  /\ nthreads = 1 => IsPrefix(RanJobs, inserted)

\* one worker has run every record, which two callers had queued together
C4_Witness ==
  /\ nthreads = 1
  /\ Len(inserted) = NJobs
  /\ RanJobs = inserted
  /\ \E k \in 1 .. Len(inserted) - 1 : inserted[k] > inserted[k + 1]

\* C5 (record reuse after completion), as claimed: a record submitted again
\* after its body was seen to have run keeps the callback it was given
\* until a worker calls it, so no worker calls a NULL callback, and the
\* bodies run are the callbacks submitted, each once and in order.
C5_ReuseAfterCompletion ==
  /\ fault # "segv"
  /\ \A j \in Jobs :
       \A k \in 1 .. Len(ran) :
         ran[k][1] = j => ran[k][2] = Count(SubSeq(ran, 1, k), LAMBDA e : e[1] = j)
  /\ \A j \in Jobs : (InQueue(j) /\ ~InCall(j)) => rec[j].work = nsub[j]

\* C6 (exactly-once lazy start): init_threads runs at most once and creates
\* exactly nthreads workers; no caller is past pthread_once, and nothing is
\* in the queue, before the initialization is complete.
C6_InitOnce ==
  /\ ninit <= 1
  /\ spawned <= nthreads
  /\ once = "DONE" => ninit = 1 /\ spawned = nthreads /\ nthreads = PoolSize(env)
  /\ \A c \in Callers : cpc[c] \in {"s_set", "p_lock", "p_post"} => once = "DONE"
  /\ inserted # <<>> => once = "DONE"
  /\ once # "DONE" => Cardinality({c \in Callers : cpc[c] \notin {"idle", "s_once"}}) <= 1

\* two callers are inside tp_work_submit before anything was queued: one
\* runs the initialization, the other waits in pthread_once
C6_Witness ==
  \E c, d \in Callers :
    /\ c # d
    /\ cpc[c] = "i_semwait" /\ cloc[c].i = nthreads /\ nthreads > 1
    /\ cpc[d] = "s_once"

InitReturns == once = "RUNNING" /\ once' = "DONE"

ExitPosted == \E k \in 1 .. Len(inserted) : inserted[k] = EXIT_MESSAGE
PastOnce(c) == cpc[c] \in {"s_set", "p_lock", "p_post"}

\* C8 (shutdown cascade terminates): once destory_threads has posted the
\* exit sentinel, every worker eventually has left its loop; the sentinel
\* stays in the queue and is never claimed nor run as a job.
C8_ShutdownCascade ==
  /\ ExitPosted ~> (\A w \in Workers : wpc[w] \in {"none", "exited"})
  /\ [](ExitPosted => InQueue(EXIT_MESSAGE))
  /\ [](EXIT_MESSAGE \notin ClaimedSet /\ \A k \in 1 .. Len(ran) : ran[k][1] # EXIT_MESSAGE)

\* the sentinel is in the queue, jobs have run, and destory_threads has
\* joined the workers of a pool of several
C8_Witness ==
  /\ nthreads > 1
  /\ InQueue(EXIT_MESSAGE)
  /\ ran # <<>>
  /\ \A w \in Pooled : wpc[w] = "exited"
  /\ \E c \in Callers : cpc[c] = "d_join" /\ cloc[c].i = nthreads

\* C9 (re-initialization after shutdown), as claimed: a tp_work_submit that
\* starts after destory_threads has reset the pool state runs the
\* initialization again, so that it posts to a pool with workers and a
\* usable mutex.
C9_ReinitAfterShutdown ==
  \A c \in Callers :
    (PastOnce(c) /\ cloc[c].late)
      => /\ nthreads > 0
         /\ mutex.st = "init"
         /\ \A w \in Pooled : wpc[w] \notin {"none", "exited"}

ParentKept ==
  /\ UNCHANGED <<once, atfork, mutex, cond, idle_threads, nthreads, threads>>
  /\ UNCHANGED <<links, rec, wpc, wq_, cpc, cloc, fault>>

\* C10 (fork re-initialization): a fork leaves the parent's guard, pool
\* state, workers and queue as they were; in the child the guard is reset,
\* so that the child's first tp_work_submit runs the initialization once
\* more (nthreads new workers, a fresh mutex, condition variable and
\* queue) before it posts, and every job submitted in the child eventually
\* has run exactly once there.
C10_ForkReinit ==
  /\ [][(forks' = forks + 1 /\ ~child') => ParentKept]_vars
  /\ [][(forks' = forks + 1 /\ child') => once' = "INIT"]_vars
  /\ [](\A c \in Callers :
          (child /\ PastOnce(c))
            => /\ once = "DONE" /\ ninit = 1 /\ spawned = nthreads
               /\ mutex.st = "init" /\ mutex.owner \in Pooled \cup {c, NOBODY}
               /\ cond.waiters \subseteq {w \in Pooled : wpc[w] = "waiting"}
               /\ \A w \in Pooled : wpc[w] # "none"
               /\ \A j \in Jobs : InQueue(j) => nsub[j] > 0)
  /\ [](child => fault = "none" /\ \A j \in Jobs : Runs(j) <= 1)
  /\ \A j \in Jobs, f \in 1 .. MaxForks :
       (child /\ forks = f /\ nsub[j] > 0) ~> (Runs(j) = 1 \/ forks > f)

\* a job has run in the child of a parent that forked with idle workers
\* and a job in its queue
C10_Witness ==
  /\ child
  /\ ninit = 1
  /\ nthreads > 1
  /\ idle_threads > nthreads
  /\ \E j \in Jobs : Runs(j) = 1
  /\ \E j \in Jobs : nsub[j] = 0 /\ rec[j].work # NULLFN

\* a numeral: one or more digits, and its value
IsNumeral(s) == s # <<>> /\ \A k \in 1 .. Len(s) : IsDigit(s[k])
RECURSIVE NumeralValue(_)
NumeralValue(s) ==
  IF s = <<>> THEN 0
  ELSE 10 * NumeralValue(SubSeq(s, 1, Len(s) - 1)) + DigitValue[s[Len(s)]]
Sized == ninit = 1

\* C11 (capacity clamp), as claimed: once init_threads has sized the pool,
\* 1 <= nthreads <= 128; a configured 0 gives 1, a configured size above
\* 128 gives 128, and a missing or non-numeric THREADPOOL_SIZE gives the
\* built-in default 4.
C11_CapacityClamp ==
  Sized =>
    /\ 1 <= nthreads /\ nthreads <= MAX_THREADPOOL_SIZE
    /\ (env.set /\ IsNumeral(env.val) /\ NumeralValue(env.val) = 0) => nthreads = 1
    /\ (env.set /\ IsNumeral(env.val) /\ NumeralValue(env.val) > MAX_THREADPOOL_SIZE)
         => nthreads = MAX_THREADPOOL_SIZE
    /\ (~env.set \/ ~IsNumeral(env.val)) => nthreads = DEFAULT_THREADS

\* the worker is between the unlock of line 185 and the next lock: at the
\* call of the body, in it, or at line 192
InJob(w) == wpc[w] \in {"run", "body", "clear"}
WaitsForMutex(t) ==
  \/ t \in Workers /\ wpc[t] \in {"lock", "woken"}
  \/ cpc[t] \in {"p_lock", "c_lock"}
BlockedOnMutex(t) == WaitsForMutex(t) /\ mutex.owner # NOBODY

\* C12 (lock discipline, no deadlock on re-entry): a worker running a job
\* holds the mutex only inside the critical section of a call the body
\* makes; no thread waits for the mutex while it holds it and never are
\* all threads blocked on the mutex; a call of tp_work_submit or
\* tp_work_cancel made by a body returns.
C12_LockDiscipline ==
  /\ [](\A w \in Workers :
          (InJob(w) /\ mutex.owner = w) => cpc[w] \in {"p_post", "c_cs"})
  /\ [](\A t \in Threads : mutex.owner = t => ~WaitsForMutex(t))
  /\ [](~ \A t \in Pooled \cup Callers : BlockedOnMutex(t))
  /\ [](fault = "none")
  /\ \A w \in Workers : (wpc[w] = "body" /\ cpc[w] # "idle") ~> (cpc[w] = "idle")

\* a job body is inside the critical section of its tp_work_submit while
\* a caller and another worker wait for the mutex
C12_Witness ==
  \E w, v \in Workers, c \in Callers :
    /\ wpc[w] = "body" /\ cpc[w] = "p_post" /\ mutex.owner = w
    /\ v # w /\ wpc[v] \in {"lock", "woken"}
    /\ cpc[c] \in {"p_lock", "c_lock"}

\* the workers between the increment of line 170 and the decrement of
\* line 172
IdleWorkers == {w \in Pooled : wpc[w] \in {"waiting", "woken"}}

\* C13 (idle counter), as claimed: in a process, a forked child that has
\* initialized its pool again included, idle_threads is the number of the
\* process's workers inside the wait, hence between 0 and nthreads.
C13_IdleCounter ==
  (child => once = "DONE")
    => /\ idle_threads = Cardinality(IdleWorkers)
       /\ 0 <= idle_threads /\ idle_threads <= nthreads

Claims(j) == Count(claimed, LAMBDA n : n = j)
\* the last submission of record j was claimed by a worker
LastClaimed(j) == nsub[j] > 0 /\ Claims(j) = nsub[j]
\* ... and that worker is back at the top of its loop, past line 192
LastFinished(j) ==
  /\ LastClaimed(j) /\ Runs(j) = nsub[j]
  /\ \A w \in Workers : wq_[w] # j

\* C14 (queue-node state), as claimed: a record linked into the shared
\* queue has a non-empty queue node and a work callback that is not NULL;
\* a record a worker has claimed has an empty queue node and is not in the
\* queue; after the job has finished its work field is NULL.
C14_QueueNodeState ==
  \A j \in Jobs :
    /\ InQueue(j) => ~QUEUE_EMPTY(links, j) /\ rec[j].work # NULLFN
    /\ LastClaimed(j) => QUEUE_EMPTY(links, j) /\ ~InQueue(j)
    /\ LastFinished(j) => rec[j].work = NULLFN

Without(q, n) == SelectSeq(q, LAMBDA x : x # n)
\* the step is the critical section of a tp_work_cancel of caller c
CancelDecides(c) == cpc[c] = "c_cs" /\ cpc'[c] # "c_cs"
InCancel(c) == cpc[c] \in {"c_lock", "c_cs", "c_mark"}

\* C15 (frame of cancel), as claimed: a tp_work_cancel(w) that succeeds
\* takes exactly w out of the shared queue, the other nodes staying in
\* their order; one that fails changes neither the queue nor a field of any
\* record; no step of tp_work_cancel changes idle_threads, signals the
\* condition variable or wakes a worker, and only the step after a success
\* writes w->work.
C15_CancelFrame ==
  [][\A c \in Callers :
       /\ (CancelDecides(c) /\ cpc'[c] = "c_mark")
            => /\ InQueue(cloc[c].w)
               /\ QueueSeq(links') = Without(QueueSeq(links), cloc[c].w)
               /\ rec' = rec
       /\ (CancelDecides(c) /\ cpc'[c] # "c_mark")
            => /\ links' = links /\ rec' = rec
               /\ cancelled'[cloc[c].w] = Append(cancelled[cloc[c].w], -1)
       /\ (InCancel(c) /\ cpc'[c] # cpc[c])
            => /\ idle_threads' = idle_threads /\ cond' = cond /\ wpc' = wpc
               /\ \A j \in Jobs : j # cloc[c].w => rec'[j] = rec[j]
               /\ rec'[cloc[c].w].data = rec[cloc[c].w].data
       /\ (cpc[c] = "c_mark" /\ cpc'[c] # "c_mark")
            => links' = links /\ rec'[cloc[c].w].work = TP_CANCELLED]_vars

\* C18 (a repeated cancel is rejected), as claimed: once tp_work_cancel(w)
\* has returned 0, a further tp_work_cancel(w) on the record, not submitted
\* again, returns -1 and leaves the shared queue as it was, whatever was
\* submitted, claimed or cancelled in between.
C18_RepeatedCancelRejected ==
  [][\A c \in Callers :
       (CancelDecides(c) /\ CancelsOk(cloc[c].w) > 0)
         => /\ cpc'[c] = "idle"
            /\ cancelled'[cloc[c].w] = Append(cancelled[cloc[c].w], -1)
            /\ QueueSeq(links') = QueueSeq(links)]_vars

\* the thread is at a statement that reads or writes wq, a queue node or
\* idle_threads: lines 168-183, 199-200, 306-308
InSection(t) ==
  \/ t \in Workers /\ wpc[t] \in {"check", "unlock"}
  \/ cpc[t] \in {"p_post", "c_cs"}
Moves(t) == cpc'[t] # cpc[t] \/ (t \in Workers /\ wpc'[t] # wpc[t])

\* C16 (one mutex serializes): a thread at an access to the shared queue or
\* to idle_threads holds the mutex, so at most one thread is at such an
\* access; every step that changes the queue links or idle_threads, the
\* set-up of init_threads apart, is the step of a thread that holds the
\* mutex then (before the step, or from the step on when it is the return
\* of the wait).
C16_Serialized ==
  /\ [](\A t \in Threads : InSection(t) => mutex.owner = t)
  /\ [](Cardinality({t \in Threads : InSection(t)}) <= 1)
  /\ [][(ninit' = ninit /\ forks' = forks
           /\ (links' # links \/ idle_threads' # idle_threads))
          => \E t \in Threads :
               /\ Moves(t)
               /\ (InSection(t) /\ mutex.owner = t)
                    \/ (InSection(t)' /\ mutex'.owner = t)]_vars

\* a caller is inside the section of tp_work_cancel while a worker and
\* another caller ask for the mutex
C16_Witness ==
  \E c, d \in Callers, w \in Workers :
    /\ cpc[c] = "c_cs" /\ mutex.owner = c
    /\ cpc[d] = "p_lock"
    /\ wpc[w] \in {"lock", "woken"}
    /\ idle_threads > 0

BuiltIn == 1 .. DEFAULT_THREADS

\* C17 (fallback of the thread table): with a configured size above 4 and
\* malloc returning NULL, init_threads does not abort; from its set-up on
\* the pool has the built-in table and 4 as its size, it creates exactly
\* these 4 workers, and every job submitted, the one whose call ran the
\* initialization included, is queued and eventually run once.
C17_AllocFallback ==
  /\ [](fault = "none")
  /\ [](ninit = 1 => nthreads = DEFAULT_THREADS /\ threads = "default_threads")
  /\ [](spawned <= DEFAULT_THREADS)
  /\ [](once = "DONE" => spawned = DEFAULT_THREADS /\ \A w \in BuiltIn : wpc[w] # "none")
  /\ [](\A j \in Jobs : Runs(j) <= 1)
  /\ \A j \in Jobs : (nsub[j] > 0) ~> (Runs(j) = 1 /\ claimed # <<>>)

\* the configured size is above 4, the pool has come up with the 4 workers
\* of the built-in table, and they have run every job and wait again
C17_Witness ==
  /\ PoolSize(env) > DEFAULT_THREADS
  /\ once = "DONE" /\ nthreads = DEFAULT_THREADS /\ threads = "default_threads"
  /\ \A j \in Jobs : Runs(j) = 1
  /\ cond.waiters = BuiltIn

\* record j was inserted into the queue before the exit sentinel
AheadOfExit(j) ==
  \E k, l \in 1 .. Len(inserted) :
    k < l /\ inserted[k] = j /\ inserted[l] = EXIT_MESSAGE
\* a tp_work_cancel has taken record j out of the queue
CancelTook(j) ==
  \/ CancelsOk(j) > 0
  \/ \E c \in Callers : cpc[c] = "c_mark" /\ cloc[c].w = j
Joined == \E c \in Callers : cpc[c] = "d_join" /\ cloc[c].i = nthreads

\* C19 (jobs ahead of the sentinel are drained), as claimed: when destory_threads has
\* joined all nthreads workers, every job inserted before the sentinel and
\* not cancelled has run, once, and its worker is past line 192; no worker
\* has left its loop while a job inserted before the sentinel is in the
\* queue.
C19_DrainedBeforeExit ==
  /\ Joined =>
       \A j \in Jobs :
         (AheadOfExit(j) /\ ~CancelTook(j))
           => /\ Runs(j) = 1 /\ rec[j].work = NULLFN
              /\ \A w \in Workers : wq_[w] # j
  /\ (\E w \in Workers : wpc[w] = "exited")
       => \A j \in Jobs : AheadOfExit(j) => ~InQueue(j)

=============================================================================
